---- MODULE Spec2Model ----
(***************************************************************************)
(* Model of the live voice session of Consumer-Lumen                       *)
(* (src/components/LiveSession.tsx): the capture -> encode -> send path,   *)
(* the receive -> decode -> schedule path, interruption and teardown.      *)
(*                                                                         *)
(* Time is counted in sample periods of the 24 kHz output context: a       *)
(* chunk of 2m bytes lasts m units, and the output clock (ctx.currentTime) *)
(* is an integer number of such units.                                     *)
(***************************************************************************)
EXTENDS Integers, Sequences, FiniteSets, TLC

\* ------------------------------------------------------------------ bounds
MaxMsgs == 3        \* inbound messages acted on in one run
MaxClock == 2       \* last value of the output clock explored
MaxTicks == 3       \* capture ticks (onaudioprocess events) in one run
MaxToggles == 2     \* clicks on the mute button in one run
Quantum == 4        \* a model sample x stands for the float x / Quantum

\* ------------------------------------------------------- program constants
Gain == 5           \* setVolume(Math.min(rms * 5, 1))
BytesPerSample == 2 \* 16-bit PCM, one channel

VARIABLES
    \* ---- component state and refs
    mounted,            \* `let mounted` of the effect closure
    startPc,            \* where startSession is: "awaitMic", "connected", "failed"
    micOpens,           \* number of getUserMedia calls made so far
    inputCtx,           \* inputAudioContextRef.current: "running" or "closed"
    outputCtx,          \* outputAudioContextRef.current: "running" or "closed"
    transport,          \* the live connection: none/connecting/open/closing/closed
    sessionPromise,     \* none/pending/resolved/rejected
    sessionRef,         \* sessionRef.current: "null" or "session"
    isConnected, isMuted, status, volume,   \* React state
    processorAttached,  \* scriptProcessor.onaudioprocess installed and wired
    opened,             \* the transport has signalled open (onopen was invoked)
    \* ---- teardown and failures
    released,           \* what the last call of disconnect did to each resource
    failure,            \* the failure met so far: none/mic/handshake/runtime
    errorsShown,        \* error statuses put on the screen so far
    \* ---- outbound flow
    capture,            \* one record per capture tick, in tick order
    waiting,            \* ticks whose send waits on sessionPromise (then-callbacks)
    sent,               \* ticks passed to session.sendRealtimeInput, in call order
    toggles,            \* mute clicks so far
    \* ---- inbound flow
    clock,              \* outputAudioContextRef.current.currentTime
    nextStartTime,      \* nextStartTimeRef.current
    sources,            \* sourcesRef.current: ids of the chunks whose source is in it
    chunks,             \* one record per audio-bearing message, in arrival order
    decoding,           \* handlers suspended at `await decodeAudioData`, FIFO
    msgs,               \* transport messages the handler has acted on so far
    epoch,              \* interruptions handled so far
    order,              \* sources created and started so far
    intOrder,           \* value of `order` when the last interruption was handled
    \* ---- PCM16 codec (services/audioUtils)
    sample,             \* the float sample put in, as a numerator over SampleDen
    wire,               \* its two encoded bytes, low byte first; <<>> before
    heard,              \* the decoded sample as a numerator over 32768
    \* ---- podcast player of the consumer dashboard
    podPlays,           \* one state per call of playStoredPodcast, in call order
    sourceNodeRef,      \* sourceNodeRef.current: 0 (null) or the call whose source it is
    isPlaying,          \* React state
    \* ---- consumer dashboard
    selectedArticleId,  \* 0 (null) or the id of the selected article
    activeFormat,       \* "text", "podcast" or "comic"
    generatedContent,   \* the text shown: the adaptation it is and its article
    generatedImage,     \* an illustration is shown
    isGenerating, isGeneratingImage,        \* the busy flags
    genCall,            \* the call of handleGenerate suspended at its await
    illCall,            \* the call of handleIllustrate suspended at its await
    readers,            \* FileReaders started whose onloadend has not run
    made,               \* ids given to assets so far (crypto.randomUUID)
    calls,              \* calls of handleGenerate and handleIllustrate so far
    \* ---- App: the article list and its store
    articles,           \* App's `articles` state: id -> article
    isLoaded,           \* App's `isLoaded` state
    loadPc,             \* where loadData is, and the branch it took
    db,                 \* the IndexedDB object store: id -> article
    dbHealth,           \* "ok", "openFails", "readFails" or "writeFails"
    puts                \* put requests issued by the persist effect, pending

lifeVars == <<mounted, startPc, micOpens, inputCtx, outputCtx, transport,
              sessionPromise, sessionRef, isConnected, status,
              processorAttached, opened>>
outVars == <<capture, waiting, sent, toggles, isMuted, volume>>
inVars == <<clock, nextStartTime, sources, chunks, decoding, msgs, epoch,
            order, intOrder>>
tearVars == <<released, failure, errorsShown>>
codecVars == <<sample, wire, heard>>
podVars == <<podPlays, sourceNodeRef, isPlaying>>
dashVars == <<selectedArticleId, activeFormat, generatedContent,
              generatedImage, isGenerating, isGeneratingImage, genCall,
              illCall, readers, made, calls>>
appVars == <<articles, isLoaded, loadPc, db, dbHealth, puts>>
sideVars == <<codecVars, podVars, dashVars, appVars>>
liveVars == <<lifeVars, tearVars, outVars, inVars>>
vars == <<liveVars, sideVars>>

\* ----------------------------------------------------------------- helpers
Max(a, b) == IF a >= b THEN a ELSE b
Min(a, b) == IF a <= b THEN a ELSE b

RECURSIVE SumSq(_)
SumSq(s) == IF s = <<>> THEN 0 ELSE Head(s) * Head(s) + SumSq(Tail(s))

\* The frames a capture tick may deliver: silence, a quiet frame, full scale.
Frames == { <<0, 0>>, <<1, 0>>, <<Quantum, 0 - Quantum>> }

\* Math.min(Math.sqrt(sum / n) * 5, 1), kept exact as its square in units of
\* 1 / (Quantum^2 * n): min(25 * sum, Quantum^2 * n).
Loudness(frame) ==
    Min(Gain * Gain * SumSq(frame), Quantum * Quantum * Len(frame))

\* A message without audio: base64Audio is undefined or the empty string,
\* both falsy at line 100.
NoAudio == 0 - 1

\* The payloads a message may carry: none, or a base64 string that is truthy
\* and decodes to this many bytes.  0 is a string of padding or white space
\* only, 3 is not a whole number of 16-bit samples.
ChunkBytes == {NoAudio, 0, 2, 3, 4}

\* decodeAudioData: a chunk decodes iff its length is a whole number of samples.
Decodable(bytes) == bytes % BytesPerSample = 0

\* audioBuffer.duration, in sample periods.
Duration(bytes) == bytes \div BytesPerSample

\* Variant that C5 rules out: onaudioprocess reads the current mute state and
\* returns at line 76 before the loudness is measured.
LiveIsMuted == isMuted

\* The value of isMuted that onaudioprocess reads: the closure was created by
\* the effect that runs once on mount, so it holds the first render's state.
ClosureIsMuted == FALSE

\* disconnect has not been called: nothing was attempted on any resource.
NotReleased == [session |-> "no", input |-> "no", output |-> "no"]

StatusConnected == "Connected. Say \"Hello\" to start."
StatusFailed == "Failed to connect microphone or API."

\* ------------------------------------------------------------------- Init
\* The state when startSession has created both audio contexts and is
\* suspended at `await getUserMedia`.
InitLive ==
    /\ mounted = TRUE
    /\ startPc = "awaitMic"
    /\ micOpens = 1
    /\ inputCtx = "running"
    /\ outputCtx = "running"
    /\ transport = "none"
    /\ sessionPromise = "none"
    /\ sessionRef = "null"
    /\ isConnected = FALSE
    /\ isMuted = FALSE
    /\ status = "Initializing..."
    /\ volume = 0
    /\ processorAttached = FALSE
    /\ opened = FALSE
    /\ released = NotReleased
    /\ failure = "none"
    /\ errorsShown = 0
    /\ capture = <<>>
    /\ waiting = <<>>
    /\ sent = <<>>
    /\ toggles = 0
    /\ clock = 0
    /\ nextStartTime = 0
    /\ sources = {}
    /\ chunks = <<>>
    /\ decoding = <<>>
    /\ msgs = 0
    /\ epoch = 0
    /\ order = 0
    /\ intOrder = 0

\* The codec at rest: nothing was encoded or decoded.
NoSample == 0 - 65536
InitCodecIdle ==
    /\ sample = 0
    /\ wire = <<>>
    /\ heard = NoSample

\* The dashboard's player before any call: no source, nothing playing.
InitPodIdle ==
    /\ podPlays = <<>>
    /\ sourceNodeRef = 0
    /\ isPlaying = FALSE

\* An article without adaptations and podcasts.
PlainArticle == [adaptations |-> <<>>, podcasts |-> <<>>]

\* INITIAL_ARTICLES: the one seed article, id '1'.
SeedArticles == [a \in {1} |-> PlainArticle]

NoContent == [id |-> 0, art |-> 0]
NoCall == [format |-> "none", art |-> 0, snap |-> PlainArticle]

\* The dashboard as mounted: nothing selected, nothing generated, no call.
InitDashIdle ==
    /\ selectedArticleId = 0
    /\ activeFormat = "text"
    /\ generatedContent = NoContent
    /\ generatedImage = FALSE
    /\ isGenerating = FALSE
    /\ isGeneratingImage = FALSE
    /\ genCall = NoCall
    /\ illCall = NoCall
    /\ readers = <<>>
    /\ made = 0
    /\ calls = 0

\* The app once loadData has finished on a store that holds two articles.
InitAppLoaded ==
    /\ articles = [a \in {1, 2} |-> PlainArticle]
    /\ isLoaded = TRUE
    /\ loadPc = [at |-> "done", via |-> "stored"]
    /\ db = [a \in {1, 2} |-> PlainArticle]
    /\ dbHealth = "ok"
    /\ puts = {}

\* The state in which the dashboard is first shown.
InitDash ==
    /\ InitLive
    /\ InitCodecIdle
    /\ InitPodIdle
    /\ InitDashIdle
    /\ InitAppLoaded

\* The live session is opened from the dashboard, on a selected article.
Init ==
    /\ InitLive
    /\ InitCodecIdle
    /\ InitPodIdle
    /\ InitAppLoaded
    /\ selectedArticleId = 1
    /\ activeFormat = "text"
    /\ generatedContent = NoContent
    /\ generatedImage = FALSE
    /\ isGenerating = FALSE
    /\ isGeneratingImage = FALSE
    /\ genCall = NoCall
    /\ illCall = NoCall
    /\ readers = <<>>
    /\ made = 0
    /\ calls = 0

\* ------------------------------------------------------------- lifecycle
\* A React state setter: ignored once the component has been unmounted.
SetState(new, old) == IF mounted THEN new ELSE old

\* Variant that C10 rules out: capture processing is wired as soon as the
\* stream is there, before the transport has opened.
MicGrantedEager ==
    /\ startPc = "awaitMic"
    /\ startPc' = "connected"
    /\ transport' = "connecting"
    /\ sessionPromise' = "pending"
    /\ processorAttached' = TRUE
    /\ UNCHANGED <<mounted, micOpens, inputCtx, outputCtx, sessionRef,
                   isConnected, status, opened>>
    /\ UNCHANGED <<tearVars, outVars, inVars, sideVars>>

\* startSession, line 60 resolved and lines 63-157 run: the stream is there,
\* ai.live.connect is called and the then-callback storing the session is
\* registered.  startSession does not look at `mounted`.
MicGranted ==
    /\ startPc = "awaitMic"
    /\ startPc' = "connected"
    /\ transport' = "connecting"
    /\ sessionPromise' = "pending"
    /\ UNCHANGED <<mounted, micOpens, inputCtx, outputCtx, sessionRef,
                   isConnected, status, processorAttached, opened>>
    /\ UNCHANGED <<tearVars, outVars, inVars, sideVars>>

\* Variant that C16 rules out: the catch block shows the error and starts
\* the session again, once.
MicDeniedRetry ==
    /\ startPc = "awaitMic"
    /\ status' = SetState(StatusFailed, status)
    /\ failure' = "mic"
    /\ errorsShown' = SetState(errorsShown + 1, errorsShown)
    /\ IF micOpens = 1
         THEN /\ micOpens' = micOpens + 1
              /\ UNCHANGED startPc
         ELSE /\ startPc' = "failed"
              /\ UNCHANGED micOpens
    /\ UNCHANGED <<mounted, inputCtx, outputCtx, transport,
                   sessionPromise, sessionRef, isConnected,
                   processorAttached, opened, released>>
    /\ UNCHANGED <<outVars, inVars, sideVars>>

\* startSession, line 60 rejected: the catch block of lines 159-162.
MicDenied ==
    /\ startPc = "awaitMic"
    /\ startPc' = "failed"
    /\ status' = SetState(StatusFailed, status)
    /\ failure' = "mic"
    /\ errorsShown' = SetState(errorsShown + 1, errorsShown)
    /\ UNCHANGED <<mounted, micOpens, inputCtx, outputCtx, transport,
                   sessionPromise, sessionRef, isConnected,
                   processorAttached, opened, released>>
    /\ UNCHANGED <<outVars, inVars, sideVars>>

\* callbacks.onopen, lines 66-94.  createMediaStreamSource throws on a closed
\* input context, after the two state setters have run.
OnOpen ==
    /\ transport = "connecting"
    /\ transport' = "open"
    /\ opened' = TRUE
    /\ IF mounted
         THEN /\ isConnected' = TRUE
              /\ status' = StatusConnected
              /\ processorAttached' = (inputCtx = "running")
         ELSE UNCHANGED <<isConnected, status, processorAttached>>
    /\ UNCHANGED <<mounted, startPc, micOpens, inputCtx, outputCtx,
                   sessionPromise, sessionRef>>
    /\ UNCHANGED <<tearVars, outVars, inVars, sideVars>>

\* Variant that C8 rules out: a tick taken before the promise has resolved
\* issues no send.
DeferDrop(thens, tick) == thens

\* Variant that C21 rules out: a tick taken before the promise has resolved
\* registers its then-callback twice.
DeferTwice(thens, tick) == Append(Append(thens, tick), tick)

\* Lines 87-89 on a pending promise: the tick's then-callback joins those
\* already registered.
Defer(thens, tick) == Append(thens, tick)

\* sessionPromise resolves: the then-callbacks run in registration order, the
\* one of line 155 first, then one per waiting capture tick (lines 87-89).
SessionResolved ==
    /\ sessionPromise = "pending"
    /\ opened
    /\ sessionPromise' = "resolved"
    /\ sessionRef' = "session"
    /\ sent' = sent \o waiting
    /\ waiting' = <<>>
    /\ UNCHANGED <<mounted, startPc, micOpens, inputCtx, outputCtx, transport,
                   isConnected, status, processorAttached, opened>>
    /\ UNCHANGED <<capture, toggles, isMuted, volume>>
    /\ UNCHANGED <<tearVars, inVars, sideVars>>

\* callbacks.onerror, lines 132-135.  An error before open rejects the
\* session promise; the connection is then on its way to closed.
OnError ==
    /\ transport \in {"connecting", "open"}
    /\ transport' = "closing"
    /\ status' = SetState("Error occurred", status)
    /\ sessionPromise' = IF sessionPromise = "pending" /\ ~opened
                           THEN "rejected" ELSE sessionPromise
    /\ failure' = IF opened THEN "runtime" ELSE "handshake"
    /\ errorsShown' = SetState(errorsShown + 1, errorsShown)
    /\ UNCHANGED <<mounted, startPc, micOpens, inputCtx, outputCtx,
                   sessionRef, isConnected, processorAttached, opened,
                   released>>
    /\ UNCHANGED <<outVars, inVars, sideVars>>

\* callbacks.onclose, lines 129-131.
OnClose ==
    /\ transport \in {"open", "closing"}
    /\ transport' = "closed"
    /\ status' = SetState("Disconnected", status)
    /\ UNCHANGED <<mounted, startPc, micOpens, inputCtx, outputCtx,
                   sessionPromise, sessionRef, isConnected,
                   processorAttached, opened>>
    /\ UNCHANGED <<tearVars, outVars, inVars, sideVars>>

\* AudioContext.close(), lines 34 and 37: the promise it returns is fulfilled
\* for a running context and rejected for one that is closed already; the
\* call itself returns either way.
CloseOutcome(ctx) == IF ctx = "running" THEN "ok" ELSE "failed"

\* Variant that C12 rules out: disconnect returns at once when there is no
\* session to close, and leaves both audio contexts running.
DisconnectIfSession(m, throws) ==
    LET hasSession == sessionRef = "session"
    IN  /\ ~throws
        /\ IF hasSession
             THEN /\ released' = [session |-> "ok",
                                   input |-> CloseOutcome(inputCtx),
                                   output |-> CloseOutcome(outputCtx)]
                  /\ transport' = IF transport = "open"
                                    THEN "closing" ELSE transport
                  /\ inputCtx' = "closed"
                  /\ outputCtx' = "closed"
                  /\ isConnected' = IF m THEN FALSE ELSE isConnected
             ELSE /\ released' = [session |-> "skipped", input |-> "no",
                                   output |-> "no"]
                  /\ UNCHANGED <<transport, inputCtx, outputCtx, isConnected>>
        /\ UNCHANGED <<startPc, micOpens, sessionPromise, sessionRef, status,
                       processorAttached, opened, failure, errorsShown>>
        /\ UNCHANGED <<outVars, inVars, sideVars>>

\* disconnect, lines 29-44, for the given value of `mounted` at the call.
\* sessionRef.current.close() is a plain call with no try around it: when it
\* throws (`throws`), disconnect ends at line 31 and the exception goes to the
\* caller; the connection is then left as it was.
DisconnectBody(m, throws) ==
    LET hasSession == sessionRef = "session"
    IN  /\ throws => hasSession
        /\ IF throws
             THEN /\ released' = [session |-> "failed", input |-> "no",
                                  output |-> "no"]
                  /\ UNCHANGED <<transport, inputCtx, outputCtx, isConnected>>
             ELSE /\ released' =
                        [session |-> IF hasSession THEN "ok" ELSE "skipped",
                         input |-> CloseOutcome(inputCtx),
                         output |-> CloseOutcome(outputCtx)]
                  /\ transport' = IF hasSession /\ transport = "open"
                                    THEN "closing" ELSE transport
                  /\ inputCtx' = "closed"
                  /\ outputCtx' = "closed"
                  /\ isConnected' = IF m THEN FALSE ELSE isConnected
        /\ UNCHANGED <<startPc, micOpens, sessionPromise, sessionRef, status,
                       processorAttached, opened, failure, errorsShown>>
        /\ UNCHANGED <<outVars, inVars, sideVars>>

\* The hang-up button, line 228.
HangUp ==
    /\ mounted
    /\ DisconnectBody(TRUE, FALSE)
    /\ UNCHANGED mounted

\* The effect's cleanup, lines 167-170.
Unmount ==
    /\ mounted
    /\ mounted' = FALSE
    /\ DisconnectBody(FALSE, FALSE)

\* The same two callers when sessionRef.current.close() throws.
HangUpCloseThrows ==
    /\ mounted
    /\ DisconnectBody(TRUE, TRUE)
    /\ UNCHANGED mounted

UnmountCloseThrows ==
    /\ mounted
    /\ mounted' = FALSE
    /\ DisconnectBody(FALSE, TRUE)

\* ---------------------------------------------------------- outbound flow
\* The mute button, line 221.
ToggleMute ==
    /\ mounted
    /\ toggles < MaxToggles
    /\ toggles' = toggles + 1
    /\ isMuted' = ~isMuted
    /\ UNCHANGED <<capture, waiting, sent, volume>>
    /\ UNCHANGED <<lifeVars, tearVars, inVars, sideVars>>

\* scriptProcessor.onaudioprocess, lines 75-90, on one frame.  The capture
\* record keeps what the tick did: the user's mute state at the tick, the
\* frame, the loudness published (-1: none), whether a send was issued,
\* whether it was issued before the session promise had resolved, and the
\* state of the connection at the tick.
CaptureTick(frame) ==
    /\ processorAttached
    /\ inputCtx = "running"
    /\ Len(capture) < MaxTicks
    /\ IF ClosureIsMuted
         THEN /\ capture' = Append(capture, [muted |-> isMuted, data |-> frame,
                                             vol |-> -1, forwarded |-> FALSE,
                                             early |-> FALSE,
                                             conn |-> transport])
              /\ UNCHANGED <<waiting, sent, volume>>
         ELSE /\ volume' = SetState(Loudness(frame), volume)
              /\ capture' = Append(capture, [muted |-> isMuted, data |-> frame,
                                             vol |-> Loudness(frame),
                                             forwarded |-> TRUE,
                                             early |->
                                               (sessionPromise # "resolved"),
                                             conn |-> transport])
              /\ IF sessionPromise = "resolved"
                   THEN /\ sent' = Append(sent, Len(capture) + 1)
                        /\ UNCHANGED waiting
                   ELSE /\ waiting' = Defer(waiting, Len(capture) + 1)
                        /\ UNCHANGED sent
    /\ UNCHANGED <<toggles, isMuted>>
    /\ UNCHANGED <<lifeVars, tearVars, inVars, sideVars>>

\* ----------------------------------------------------------- inbound flow
\* Variant that C20 rules out: the set is cleared without stopping its sources.
StopNone(tab, srcs) == tab

\* The `if (message.serverContent?.interrupted)` block, lines 123-127, applied
\* to the source set `srcs` and the chunk table `tab` the handler has reached:
\* every source of the set is stopped, the set is cleared, the cursor is 0.
StopAll(tab, srcs) ==
    [i \in DOMAIN tab |->
        IF i \in srcs THEN [tab[i] EXCEPT !.stopped = TRUE] ELSE tab[i]]

\* Variants of line 102 that C6 and C7 rule out: the clock is not read at all,
\* or the cursor is set to the clock without the max.
AnchorStale(cursor, now) == cursor
AnchorNow(cursor, now) == now

\* Line 102: the cursor a handler leaves when it reads the output clock.
Anchor(cursor, now) == Max(cursor, now)

\* Variant of line 118 that C1 rules out: the cursor is not advanced.
AdvanceNone(cursor, bytes) == cursor

\* Line 118: the cursor after a buffer of `bytes` bytes was started at it.
Advance(cursor, bytes) == cursor + Duration(bytes)

\* Variant of line 126 that C2 rules out: the cursor is not reset.
KeepCursor(cursor) == cursor

\* Line 126: the cursor an interruption leaves.
ResetCursor(cursor) == 0

NewChunk(bytes, interrupted) ==
    [bytes |-> bytes, interrupted |-> interrupted,
     now |-> clock, pre |-> nextStartTime, q0 |-> Len(decoding),
     arrEpoch |-> epoch,
     fresh |-> (epoch > 0 /\ order = intOrder /\ decoding = <<>>),
     st |-> "decoding", start |-> -1, at |-> -1, ord |-> 0,
     schedEpoch |-> -1, q1 |-> 0, stopped |-> FALSE, ended |-> FALSE]

\* callbacks.onmessage, lines 95-128, from its call to its first suspension
\* (line 104) or, for a message without audio, to its end.
OnMessage(bytes, interrupted) ==
    /\ transport = "open"
    /\ IF ~mounted \/ (bytes = NoAudio /\ ~interrupted)
         THEN UNCHANGED <<nextStartTime, sources, chunks, decoding, epoch,
                          intOrder, msgs>>
         ELSE /\ msgs < MaxMsgs
              /\ msgs' = msgs + 1
              /\ IF bytes # NoAudio
                   THEN /\ nextStartTime' = Anchor(nextStartTime, clock)
                        /\ chunks' = Append(chunks, NewChunk(bytes, interrupted))
                        /\ decoding' = Append(decoding, Len(chunks) + 1)
                        /\ UNCHANGED <<sources, epoch, intOrder>>
                   ELSE /\ chunks' = StopAll(chunks, sources)
                        /\ sources' = {}
                        /\ nextStartTime' = ResetCursor(nextStartTime)
                        /\ epoch' = epoch + 1
                        /\ intOrder' = order
                        /\ UNCHANGED decoding
    /\ UNCHANGED <<clock, order>>
    /\ UNCHANGED <<lifeVars, tearVars, outVars, sideVars>>

\* The chunk record of a source created and started now, lines 111-119.
Scheduled(c) ==
    [c EXCEPT !.st = "scheduled", !.start = nextStartTime, !.at = clock,
              !.ord = order + 1, !.schedEpoch = epoch,
              !.q1 = Len(decoding)]

\* Variant that C9 rules out: the handler suspended last resumes first.
ResumingLast == decoding[Len(decoding)]

\* The handler that resumes when a decode settles.  Handlers resume in the
\* order they suspended.
Resuming == Head(decoding)

\* Variant that C17 rules out: a decode that fails takes the handlers still
\* waiting for theirs down with it.
SettleAll(queue, id, ok) ==
    IF ok THEN SelectSeq(queue, LAMBDA j : j # id) ELSE <<>>

\* The handlers still suspended once the decode of chunk `id` has settled,
\* fulfilled (`ok`) or rejected: each call of the async handler has its own
\* promise, so only the one of `id` leaves the queue.
Settle(queue, id, ok) == SelectSeq(queue, LAMBDA j : j # id)

\* callbacks.onmessage, lines 104-128, from the resumption after the decode
\* to the end.  A failed decode rejects the handler's promise: nothing after
\* line 104 runs, the interruption block included.
DecodeResume ==
    /\ decoding # <<>>
    /\ LET id == Resuming
           c == chunks[id]
       IN  /\ decoding' = Settle(decoding, id, Decodable(c.bytes))
           /\ IF ~Decodable(c.bytes)
                THEN /\ chunks' = [chunks EXCEPT ![id].st = "dropped"]
                     /\ UNCHANGED <<nextStartTime, sources, epoch, order,
                                    intOrder>>
                ELSE LET tab == [chunks EXCEPT ![id] = Scheduled(c)]
                     IN  /\ order' = order + 1
                         /\ IF c.interrupted
                              THEN /\ chunks' = StopAll(tab, sources \cup {id})
                                   /\ sources' = {}
                                   /\ nextStartTime' =
                                          ResetCursor(Advance(nextStartTime, c.bytes))
                                   /\ epoch' = epoch + 1
                                   /\ intOrder' = order + 1
                              ELSE /\ chunks' = tab
                                   /\ sources' = sources \cup {id}
                                   /\ nextStartTime' =
                                          Advance(nextStartTime, c.bytes)
                                   /\ UNCHANGED <<epoch, intOrder>>
    /\ UNCHANGED <<clock, msgs>>
    /\ UNCHANGED <<lifeVars, tearVars, outVars, sideVars>>

\* When a started source plays: from its start time, or from the call of
\* start() when the start time is already past, for its duration.
PlayFrom(c) == Max(c.start, c.at)
PlayEnd(c) == PlayFrom(c) + Duration(c.bytes)

\* The 'ended' listener of a source, lines 114-116, when the source has played
\* to its end.  (A stopped source fires 'ended' too; interruption has cleared
\* the set by then, so that listener's delete changes nothing.)
SourceEnded(id) ==
    /\ id \in sources
    /\ outputCtx = "running"
    /\ clock >= PlayEnd(chunks[id])
    /\ sources' = sources \ {id}
    /\ chunks' = [chunks EXCEPT ![id].ended = TRUE]
    /\ UNCHANGED <<clock, nextStartTime, decoding, msgs, epoch, order,
                   intOrder>>
    /\ UNCHANGED <<lifeVars, tearVars, outVars, sideVars>>

\* The output context's clock advances while the context is running.
ClockTick ==
    /\ outputCtx = "running"
    /\ clock < MaxClock
    /\ clock' = clock + 1
    /\ UNCHANGED <<nextStartTime, sources, chunks, decoding, msgs, epoch,
                   order, intOrder>>
    /\ UNCHANGED <<lifeVars, tearVars, outVars, sideVars>>

\* --------------------------------------------------------- specifications
Lifecycle ==
    \/ MicGranted
    \/ MicDenied
    \/ OnOpen
    \/ SessionResolved
    \/ OnError
    \/ OnClose
    \/ HangUp
    \/ Unmount

Outbound ==
    \/ ToggleMute
    \/ \E frame \in Frames : CaptureTick(frame)

Inbound ==
    \/ \E bytes \in ChunkBytes, interrupted \in BOOLEAN :
          OnMessage(bytes, interrupted)
    \/ DecodeResume
    \/ \E id \in 1..MaxMsgs : SourceEnded(id)
    \/ ClockTick

\* The session with its inbound flow.  The inbound handlers read `mounted`,
\* the output context and whether the connection is open; the lifecycle steps
\* kept here are those that start the session and those that change one of
\* the three (a connection lost to an error or to session.close() has, for
\* the inbound flow, the effect of OnClose).  The outbound flow writes none of
\* the variables the inbound handlers read.
LifecycleIn ==
    \/ MicGranted
    \/ OnOpen
    \/ OnClose
    \/ HangUp
    \/ Unmount

NextIn == LifecycleIn \/ Inbound
SpecIn == Init /\ [][NextIn]_vars

\* The session with its outbound flow.
NextOut == Lifecycle \/ Outbound
SpecOut == Init /\ [][NextOut]_vars

\* The session, its outbound flow, and a connection whose close() may throw.
CloseThrows == HangUpCloseThrows \/ UnmountCloseThrows
NextFault == Lifecycle \/ CloseThrows \/ Outbound
SpecFault == Init /\ [][NextFault]_vars

\* The life cycle with inbound audio and its pending decodes, without the
\* clock and without interruptions: what a call of disconnect can meet.
\* disconnect reads and writes nothing of the inbound flow.
NextStop ==
    \/ Lifecycle
    \/ \E bytes \in ChunkBytes : OnMessage(bytes, FALSE)
    \/ DecodeResume
SpecStop == Init /\ [][NextStop]_vars

Next == Lifecycle \/ CloseThrows \/ Outbound \/ Inbound
Spec == Init /\ [][Next]_vars

\* ------------------------------------------------- vocabulary of the claims
\* The chunks whose source was created and started, and their records.
Sched == { i \in DOMAIN chunks : chunks[i].st = "scheduled" }
End(c) == c.start + Duration(c.bytes)

\* The source of chunk i is audible now.
Playing(i) ==
    /\ chunks[i].st = "scheduled"
    /\ ~chunks[i].stopped
    /\ outputCtx = "running"
    /\ PlayFrom(chunks[i]) <= clock
    /\ clock < PlayEnd(chunks[i])

\* Chunk c was handled with no other handler step in between: no decode was
\* pending when it arrived, none arrived while its own decode was pending, and
\* no interruption was handled between its arrival and its start.
Sequential(c) == c.q0 = 0 /\ c.q1 = 1 /\ c.arrEpoch = c.schedEpoch

\* b is the buffer scheduled next after a, no interruption was handled between
\* the two, b arrived before a had finished playing and no chunk arrived while
\* b was decoding.
Follows(a, b) ==
    /\ b.ord = a.ord + 1
    /\ b.schedEpoch = a.schedEpoch
    /\ b.q1 = 1
    /\ b.now <= End(a)

\* C1. Gapless ordering: three buffers scheduled one after another with no
\* delay, the first one when the cursor is not ahead of the clock, start at
\* t0, t0 + d1 and t0 + d1 + d2, where t0 is the clock read by the first
\* handler: each starts where the one before it ends.
C1_GaplessOrdering ==
    \A i, j, k \in Sched :
        LET a == chunks[i]
            b == chunks[j]
            c == chunks[k]
        IN  (Sequential(a) /\ a.pre <= a.now /\ Follows(a, b) /\ Follows(b, c))
            => /\ a.start = a.now
               /\ b.start = a.now + Duration(a.bytes)
               /\ c.start = a.now + Duration(a.bytes) + Duration(b.bytes)

C1_Witness ==
    \E i, j, k \in Sched :
        LET a == chunks[i]
            b == chunks[j]
            c == chunks[k]
        IN  /\ Sequential(a) /\ Sequential(b) /\ Sequential(c)
            /\ a.pre <= a.now /\ Follows(a, b) /\ Follows(b, c)
            /\ Duration(a.bytes) # Duration(b.bytes)
            /\ a.now > 0
            /\ c.start = a.now + Duration(a.bytes) + Duration(b.bytes)

\* No chunk has arrived and no source has been started since the last
\* interruption was handled.
JustInterrupted ==
    /\ epoch > 0
    /\ order = intOrder
    /\ \A i \in DOMAIN chunks : chunks[i].arrEpoch < epoch

\* C2. Interruption reset: once an interruption has been handled (also after
\* two buffers were scheduled) the active set is empty and the cursor is 0,
\* and the next buffer, arriving after the interruption and handled without
\* another handler in between, starts at the clock value its handler reads.
C2_InterruptionReset ==
    /\ JustInterrupted => (sources = {} /\ nextStartTime = 0)
    /\ \A i \in Sched :
          (chunks[i].fresh /\ Sequential(chunks[i]))
              => chunks[i].start = chunks[i].now

\* Two buffers were scheduled, both were flushed by an interruption, and the
\* buffer after it started at the clock, before the end of the second one.
C2_Witness ==
    \E i, j, k \in Sched :
        /\ chunks[i].ord = 1 /\ chunks[j].ord = 2 /\ chunks[k].ord = 3
        /\ chunks[i].stopped /\ chunks[j].stopped
        /\ chunks[k].fresh /\ Sequential(chunks[k])
        /\ chunks[k].now > 0
        /\ chunks[k].start = chunks[k].now
        /\ chunks[k].start < End(chunks[j])

\* C3. Barge-in is complete: a chunk delivered before an interruption that
\* has been handled is not in the active set, is not playing, and was not
\* started after that interruption.
C3_BargeInComplete ==
    \A i \in DOMAIN chunks :
        chunks[i].arrEpoch < epoch
            => /\ i \notin sources
               /\ ~Playing(i)
               /\ ~(chunks[i].st = "scheduled"
                      /\ chunks[i].schedEpoch > chunks[i].arrEpoch)

\* C6. Jitter tolerance: a buffer handled after the buffer scheduled before it
\* has finished, with the clock past the cursor, starts at the clock value its
\* handler reads, not at the stale cursor.
C6_JitterTolerance ==
    \A i, j \in Sched :
        LET a == chunks[i]
            b == chunks[j]
        IN  (b.ord = a.ord + 1 /\ Sequential(b) /\ PlayEnd(a) <= b.now
               /\ b.pre < b.now)
            => (b.start = b.now /\ b.start # b.pre)

C6_Witness ==
    \E i, j \in Sched :
        LET a == chunks[i]
            b == chunks[j]
        IN  /\ b.ord = a.ord + 1 /\ Sequential(b) /\ PlayEnd(a) <= b.now
            /\ b.schedEpoch = a.schedEpoch
            /\ b.pre = End(a) /\ b.pre < b.now
            /\ b.start = b.now

\* C7. The cursor never decreases, whatever step is taken, except in the step
\* that handles an interruption, which sets it to 0.
C7_CursorMonotone ==
    [][nextStartTime' < nextStartTime
          => (epoch' = epoch + 1 /\ nextStartTime' = 0)]_vars

\* The cursor was advanced by two buffers, an interruption lowered it to 0,
\* and the session was then torn down.
C7_Witness ==
    /\ JustInterrupted
    /\ nextStartTime = 0
    /\ \E i \in Sched : chunks[i].ord = 2 /\ End(chunks[i]) > 0
    /\ outputCtx = "closed"
    /\ ~mounted

RECURSIVE ForwardedUpTo(_)
ForwardedUpTo(n) ==
    IF n = 0 THEN <<>>
    ELSE IF capture[n].forwarded THEN Append(ForwardedUpTo(n - 1), n)
         ELSE ForwardedUpTo(n - 1)
Forwarded == ForwardedUpTo(Len(capture))

\* C4. Mute blocks sending: no send is issued for a tick taken while the user
\* has the session muted, one is issued for a tick taken while not muted, and
\* the microphone is acquired once.
C4_MuteBlocksSending ==
    /\ \A i \in DOMAIN capture : capture[i].forwarded = ~capture[i].muted
    /\ micOpens = 1

C8_CaptureOrder ==
    /\ sent \o waiting = Forwarded
    /\ Forwarded = [i \in 1..Len(capture) |-> i]
    /\ sessionPromise = "resolved" => waiting = <<>>
    /\ sessionPromise # "resolved" => sent = <<>>

\* Two ticks were taken before the promise resolved, one after, all three sent.
C8_Witness ==
    /\ Len(capture) = 3
    /\ capture[1].early /\ capture[2].early /\ ~capture[3].early
    /\ sent = <<1, 2, 3>>

\* C10. No frame before Open: capture processing is attached, a frame is
\* measured, encoded or handed to a send only after the transport has
\* signalled open.
C10_NoFrameBeforeOpen ==
    (processorAttached \/ capture # <<>> \/ waiting # <<>> \/ sent # <<>>)
        => opened

C10_Witness ==
    /\ opened
    /\ processorAttached
    /\ sent # <<>>

\* -------------------------------------------------------------- teardown
\* disconnect has been called at least once.
Stopped == released # NotReleased

\* C11. Teardown is not short-circuited: whenever disconnect has run, a
\* release that failed has not kept the other two from being attempted (a
\* close skipped for want of a session counts as attempted).
C11_TeardownNotShortCircuited ==
    /\ released.session = "failed"
          => (released.input # "no" /\ released.output # "no")
    /\ released.input = "failed"
          => (released.session # "no" /\ released.output # "no")
    /\ released.output = "failed"
          => (released.session # "no" /\ released.input # "no")

\* A state disconnect leaves as it is: both contexts closed, the session (if
\* there is one) no longer open, the component not shown as connected.
ClosedState ==
    /\ inputCtx = "closed"
    /\ outputCtx = "closed"
    /\ sessionRef = "session" => transport # "open"
    /\ mounted => ~isConnected

C13_StopWhileConnecting ==
    [][(Stopped /\ transport = "connecting") => transport' # "open"]_vars

\* The capture ticks taken while the connection was in one of `states`.
TicksDuring(states) == { i \in DOMAIN capture : capture[i].conn \in states }

\* C14. Transport close tears the session down: once the transport of a
\* session that was open has reported close, capture is stopped, the scheduler is closed, and no tick
\* taken after the close has passed a frame to the transport's send.
C14_CloseTearsDown ==
    (opened /\ transport = "closed")
        => /\ inputCtx = "closed"
           /\ outputCtx = "closed"
           /\ \A i \in TicksDuring({"closed"}) : ~capture[i].forwarded

\* C15. Runtime transport error: once the transport has reported an error
\* after open, the error is shown, capture, playback and the transport are
\* released, the session was started once only, and no tick taken after the
\* error has passed a frame to the transport's send.
C15_RuntimeError ==
    failure = "runtime"
        => /\ mounted => status = "Error occurred"
           /\ inputCtx = "closed"
           /\ outputCtx = "closed"
           /\ transport # "open"
           /\ micOpens = 1
           /\ \A i \in TicksDuring({"closing", "closed"}) :
                  ~capture[i].forwarded

\* C16. Start failure: when the microphone is refused or the connection fails
\* before it opens, the session has never been open and never is, it was
\* started once only, and one error status, no more, is on the screen of a
\* component that is still mounted (none is shown on one that is not).
C16_StartFailure ==
    /\ failure = "mic"
          => /\ startPc = "failed"
             /\ transport = "none"
             /\ mounted => status = StatusFailed
    /\ failure = "handshake"
          => /\ transport \in {"closing", "closed"}
             /\ mounted => status \in {"Error occurred", "Disconnected"}
             /\ status = "Disconnected" => transport = "closed"
    /\ failure \in {"mic", "handshake"}
          => /\ ~opened
             /\ ~isConnected
             /\ ~processorAttached
             /\ micOpens = 1
             /\ errorsShown <= 1
             /\ mounted => errorsShown = 1

\* The connection failed before it opened, the error is on the screen, and
\* the user has hung up since.
C16_Witness ==
    /\ failure = "handshake"
    /\ mounted
    /\ status = "Error occurred"
    /\ errorsShown = 1
    /\ Stopped

\* C19. setMuted takes effect only in Open: while the connection is not open
\* no step changes the mute state.
C19_MuteOnlyInOpen ==
    [][transport # "open" => isMuted' = isMuted]_vars

\* ------------------------------------------------- chunks and the active set
\* The chunks whose handler has got past its decode, one way or the other.
Settled == { i \in DOMAIN chunks : chunks[i].st # "decoding" }

\* C17. A malformed inbound chunk affects only itself: a chunk whose decode
\* failed has no source, started or in the active set; every well-formed
\* chunk whose decode has settled, the later ones included, has been
\* scheduled, and every other chunk still waits for its decode; the step in
\* which a decode fails leaves the session, the active set, the cursor and
\* the other chunks as they were.
C17_MalformedIsolated ==
    /\ [](\A i \in Settled :
             IF Decodable(chunks[i].bytes)
               THEN chunks[i].st = "scheduled"
               ELSE /\ chunks[i].st = "dropped"
                    /\ chunks[i].start = -1
                    /\ chunks[i].ord = 0
                    /\ i \notin sources)
    /\ [](\A i \in DOMAIN chunks :
             i \in Settled \/ \E k \in 1..Len(decoding) : decoding[k] = i)
    /\ [][\A i \in DOMAIN chunks :
             (chunks[i].st = "decoding" /\ chunks'[i].st = "dropped")
                => /\ UNCHANGED <<lifeVars, tearVars, sources, nextStartTime,
                                  order, epoch>>
                   /\ \A j \in DOMAIN chunks \ {i} : chunks'[j] = chunks[j]
                   /\ \A k \in 1..Len(decoding) :
                          decoding[k] # i
                             => \E l \in 1..Len(decoding') :
                                   decoding'[l] = decoding[k]]_vars

\* A chunk was dropped while an earlier source was in the active set, and a
\* well-formed chunk that arrived after it is scheduled and in the set too,
\* on a session that is still open.
C17_Witness ==
    \E i, j, k \in DOMAIN chunks :
        /\ i < j /\ j < k
        /\ chunks[j].st = "dropped"
        /\ chunks[k].st = "scheduled"
        /\ chunks[k].q0 > 0
        /\ {i, k} \subseteq sources
        /\ mounted /\ transport = "open" /\ outputCtx = "running"

\* C18. An empty or zero-duration buffer changes nothing: in the step in which
\* a message whose payload is zero bytes long (and which carries no
\* interruption) arrives, and in the step in which its handler resumes, no
\* source is created and the active set and the cursor stay as they are.
C18_EmptyBufferNoOp ==
    [][\A i \in DOMAIN chunks' :
          (/\ Duration(chunks'[i].bytes) = 0
           /\ Decodable(chunks'[i].bytes)
           /\ ~chunks'[i].interrupted
           /\ (i \notin DOMAIN chunks \/ chunks[i].st # chunks'[i].st))
             => /\ chunks'[i].st # "scheduled"
                /\ sources' = sources
                /\ nextStartTime' = nextStartTime]_vars

\* C20. Active-set membership: the set holds exactly the sources that were
\* started and have neither ended nor been stopped by an interruption; no
\* source has both ended and been stopped; a source enters the set in the
\* step that starts it and in no other, and one that has left does not come
\* back.
C20_ActiveSetMembership ==
    /\ [](sources = { i \in Sched : ~chunks[i].stopped /\ ~chunks[i].ended })
    /\ [](\A i \in DOMAIN chunks :
             /\ ~(chunks[i].stopped /\ chunks[i].ended)
             /\ (chunks[i].stopped \/ chunks[i].ended)
                   => chunks[i].st = "scheduled")
    /\ [][\A i \in DOMAIN chunks :
             /\ i \in sources' \ sources
                   => (chunks[i].st = "decoding" /\ chunks'[i].st = "scheduled")
             /\ i \in sources \ sources'
                   => (chunks'[i].stopped # chunks'[i].ended)]_vars

\* One source has ended, another was stopped by an interruption, and a third
\* is in the set.
C20_Witness ==
    \E i, j, k \in Sched :
        /\ chunks[i].ended
        /\ chunks[j].stopped
        /\ sources = {k}


\* ------------------------------------------------------------ PCM16 codec
\* services/audioUtils: createPcmBlob encodes each float sample s as the
\* signed 16-bit integer round(clamp(s, -1, 1) * 32767), low byte first;
\* decodeAudioData divides each signed 16-bit value by 32768.
SampleDen == 1000   \* the codec's input samples are the floats n / SampleDen
Pcm16Max == 32767
Pcm16Range == 32768

Abs(x) == IF x >= 0 THEN x ELSE 0 - x

\* clamp(n / den, -1, 1), as a numerator over den.
Clamp(n, den) == Max(0 - den, Min(n, den))

\* Math.round(num / den) for den > 0: the nearest integer, a half rounded up.
RoundDiv(num, den) == (2 * num + den) \div (2 * den)

\* The 16-bit value of the sample n / den.
EncodeSample(n, den) == RoundDiv(Clamp(n, den) * Pcm16Max, den)

\* A signed 16-bit value as two bytes, low byte first (two's complement).
Bytes16(v) == << v % 256, (v \div 256) % 256 >>

\* Variant that C22 rules out: the two bytes are read as an unsigned value.
DecodeUnsigned(lo, hi) == lo + 256 * hi

\* The signed 16-bit value of two bytes; the decoded sample is this value
\* divided by 32768.
DecodeSample(lo, hi) ==
    LET u == lo + 256 * hi
    IN  IF u >= Pcm16Range THEN u - 2 * Pcm16Range ELSE u

\* createPcmBlob(inputData): the bytes of a frame of samples x / den.
RECURSIVE EncodePcm16(_, _)
EncodePcm16(frame, den) ==
    IF frame = <<>> THEN <<>>
    ELSE Bytes16(EncodeSample(Head(frame), den)) \o EncodePcm16(Tail(frame), den)

\* The samples put through the codec: the grid over [-1, 1] and a few beyond
\* it on either side, which the encoder clamps.
Samples == (0 - SampleDen - 2) .. (SampleDen + 2)

InitCodec ==
    /\ InitLive
    /\ InitPodIdle
    /\ InitDashIdle
    /\ InitAppLoaded
    /\ sample \in Samples
    /\ wire = <<>>
    /\ heard = NoSample

EncodeStep ==
    /\ wire = <<>>
    /\ wire' = Bytes16(EncodeSample(sample, SampleDen))
    /\ UNCHANGED <<sample, heard>>
    /\ UNCHANGED <<liveVars, podVars, dashVars, appVars>>

DecodeStep ==
    /\ wire # <<>>
    /\ heard = NoSample
    /\ heard' = DecodeSample(wire[1], wire[2])
    /\ UNCHANGED <<sample, wire>>
    /\ UNCHANGED <<liveVars, podVars, dashVars, appVars>>

NextCodec == EncodeStep \/ DecodeStep
SpecCodec == InitCodec /\ [][NextCodec]_vars

\* ------------------------------------------------------- the open session
\* The frames of the open session: silence and the three samples
\* 0.5, -0.5, 0.25.
OpenFrames == { <<0, 0>>,
                <<Quantum \div 2, 0 - (Quantum \div 2), Quantum \div 4>> }

\* The session from its start while the connection stays open: no error, no
\* close and no stop; capture ticks, the mute button, inbound audio.
NextOpen ==
    \/ MicGranted
    \/ OnOpen
    \/ SessionResolved
    \/ ToggleMute
    \/ \E frame \in OpenFrames : CaptureTick(frame)
    \/ \E bytes \in ChunkBytes : OnMessage(bytes, FALSE)
    \/ DecodeResume
SpecOpen == Init /\ [][NextOpen]_vars

\* ----------------------------------------------------------------- C21
\* How often tick i occurs in a sequence of ticks.
Times(seq, i) == Cardinality({ k \in DOMAIN seq : seq[k] = i })

\* The bytes handed to session.sendRealtimeInput for tick i.
SentBlob(i) == EncodePcm16(capture[i].data, Quantum)

\* C21: one in, one out.  A capture tick of n samples taken while the
\* connection is open and the user is not muted is passed to the transport
\* exactly once (it waits at most until the session promise resolves), as one
\* frame of 2n bytes; an inbound chunk of 2m bytes whose decode has settled
\* has exactly one playback source, of duration m sample periods, and no
\* source exists without its chunk.
C21_OneInOneOut ==
    /\ \A i \in DOMAIN capture :
          (capture[i].conn = "open" /\ ~capture[i].muted)
             => /\ Times(sent, i) + Times(waiting, i) = 1
                /\ sessionPromise = "resolved" => Times(sent, i) = 1
                /\ Len(SentBlob(i)) = 2 * Len(capture[i].data)
    /\ \A i \in Settled :
          Decodable(chunks[i].bytes)
             => /\ chunks[i].st = "scheduled"
                /\ 2 * (PlayEnd(chunks[i]) - PlayFrom(chunks[i]))
                      = chunks[i].bytes
                /\ \A j \in Settled \ {i} : chunks[j].ord # chunks[i].ord
    /\ order = Cardinality(Sched)

\* The spec's scenario: the tick [0.5, -0.5, 0.25] was sent as 6 bytes, and a
\* chunk of 4 bytes is the one source, lasting 2 sample periods.
C21_Witness ==
    /\ \E i \in DOMAIN capture :
          /\ capture[i].conn = "open" /\ ~capture[i].muted
          /\ Len(capture[i].data) = 3
          /\ Times(sent, i) = 1
          /\ Len(SentBlob(i)) = 6
    /\ \E i \in Sched :
          /\ chunks[i].bytes = 4
          /\ PlayEnd(chunks[i]) - PlayFrom(chunks[i]) = 2
    /\ order = 1

\* ----------------------------------------------------------------- C22
\* 32768 * SampleDen times the distance between the sample put in (clamped)
\* and the sample decoded.
RoundTripError ==
    Abs(heard * SampleDen - Pcm16Range * Clamp(sample, SampleDen))

InRange == Abs(sample) <= SampleDen

\* C22 as stated: every sample of [-1, 1] comes back within 1/32768.
C22_RoundTripExact ==
    (heard # NoSample /\ InRange) => RoundTripError <= SampleDen

\* C22: every sample s of [-1, 1] comes back within (1/2 + |s|) / 32768,
\* which is at most 1.5/32768, and within 1/32768 when |s| <= 1/2.
C22_RoundTrip ==
    (heard # NoSample /\ InRange)
       => /\ 2 * RoundTripError <= SampleDen + 2 * Abs(sample)
          /\ 2 * RoundTripError <= 3 * SampleDen
          /\ 2 * Abs(sample) <= SampleDen => RoundTripError <= SampleDen

\* A sample of [-1, 1] that came back farther than 1/32768 from itself.
C22_Witness ==
    /\ heard # NoSample
    /\ InRange
    /\ RoundTripError > SampleDen

\* ----------------------------------------------------------------- C23
StatusErrors == { "Error occurred", StatusFailed }

\* C23: while the component is mounted its status string tells the state of
\* the session: the initial status until the transport has opened, the
\* connected status while the connection is open, and, once a failure has
\* been met, an error status that no later event replaces.
C23_StatusReflectsState ==
    mounted
       => /\ (failure = "none" /\ ~opened) => status = "Initializing..."
          /\ (failure = "none" /\ transport = "open")
                => status = StatusConnected
          /\ failure # "none" => status \in StatusErrors

\* ----------------------------------------------------------------- C24
\* The step ends the handling of a message that carried the interruption
\* flag: a message without audio is handled in one step, one with audio ends
\* when its decode has settled.
InterruptionHandled ==
    \/ msgs' # msgs /\ Len(chunks') = Len(chunks)
    \/ \E i \in DOMAIN chunks :
          /\ chunks[i].interrupted
          /\ chunks[i].st = "decoding"
          /\ chunks'[i].st # "decoding"

\* C24: when the handling of a message with the interruption flag ends, the
\* active set is empty and the cursor is 0, whether the message carried no
\* audio, audio that decoded, or audio that failed to decode.
C24_InterruptionAlwaysFlushes ==
    [][InterruptionHandled => (sources' = {} /\ nextStartTime' = 0)]_vars

\* ----------------------------------------------------------------- C25
\* C25: once disconnect has run (hang-up or unmount), no further frame is
\* passed to the transport and no further playback source is created and
\* started.
C25_NothingAfterStop ==
    [][Stopped => (sent' = sent /\ order' = order)]_vars


\* ---------------------------------------------------------- podcast player
\* playStoredPodcast and stopAudio of src/components/ConsumerDashboard.tsx.
\* A call of playStoredPodcast is "decoding" while it is suspended at
\* `await decodeAudioData`, "failed" when the decode rejected, "playing" once
\* its source was started, "stopping" when the source was stopped and its
\* 'ended' event is still to come, "stopped" after that event, and "ended"
\* when the source played to its end.
MaxPlays == 3       \* calls of playStoredPodcast in one run

PodPlaying == { i \in DOMAIN podPlays : podPlays[i] = "playing" }

\* sourceNodeRef.current.stop() of line 308, on the table of calls.
StopSource(tab, ref) ==
    [i \in DOMAIN tab |->
        IF i = ref /\ tab[i] = "playing" THEN "stopping" ELSE tab[i]]

\* stopAudio, lines 306-312: the source the ref points to is stopped and the
\* ref cleared; sources the ref does not point to are not touched.
StopAudioCall ==
    /\ podPlays' = StopSource(podPlays, sourceNodeRef)
    /\ sourceNodeRef' = 0
    /\ isPlaying' = FALSE

\* playStoredPodcast, lines 276-289, up to its suspension at the decode.
PlayCall ==
    /\ Len(podPlays) < MaxPlays
    /\ podPlays' = Append(StopSource(podPlays, sourceNodeRef), "decoding")
    /\ sourceNodeRef' = 0
    /\ isPlaying' = FALSE

\* The stop button (line 553) when the player shows as playing.
StopAudio ==
    /\ isPlaying
    /\ StopAudioCall
    /\ UNCHANGED <<liveVars, codecVars, dashVars, appVars>>

\* The play buttons (lines 553 and 592).
PlayStoredPodcast ==
    /\ PlayCall
    /\ UNCHANGED <<liveVars, codecVars, dashVars, appVars>>

\* playStoredPodcast, lines 291-298, resumed with the decoded buffer: a source
\* is created and started, the ref is set to it, isPlaying is set.
PodcastDecoded(i) ==
    /\ i \in DOMAIN podPlays
    /\ podPlays[i] = "decoding"
    /\ podPlays' = [podPlays EXCEPT ![i] = "playing"]
    /\ sourceNodeRef' = i
    /\ isPlaying' = TRUE
    /\ UNCHANGED <<liveVars, codecVars, dashVars, appVars>>

\* playStoredPodcast, lines 299-302: the decode rejected.
PodcastDecodeFails(i) ==
    /\ i \in DOMAIN podPlays
    /\ podPlays[i] = "decoding"
    /\ podPlays' = [podPlays EXCEPT ![i] = "failed"]
    /\ UNCHANGED <<sourceNodeRef, isPlaying>>
    /\ UNCHANGED <<liveVars, codecVars, dashVars, appVars>>

\* source.onended, line 294: the source played to its end, or it was stopped
\* and its 'ended' event arrives.
PodcastEnded(i) ==
    /\ i \in DOMAIN podPlays
    /\ podPlays[i] \in {"playing", "stopping"}
    /\ podPlays' = [podPlays EXCEPT
                      ![i] = IF podPlays[i] = "playing" THEN "ended"
                                                        ELSE "stopped"]
    /\ isPlaying' = FALSE
    /\ UNCHANGED sourceNodeRef
    /\ UNCHANGED <<liveVars, codecVars, dashVars, appVars>>

NextPod ==
    \/ PlayStoredPodcast
    \/ StopAudio
    \/ \E i \in 1..MaxPlays : PodcastDecoded(i)
    \/ \E i \in 1..MaxPlays : PodcastDecodeFails(i)
    \/ \E i \in 1..MaxPlays : PodcastEnded(i)
SpecPod == InitDash /\ [][NextPod]_vars

\* ----------------------------------------------------------------- C26
\* C26: at most one podcast source is playing at any time, and a call of
\* stopAudio leaves none playing.
C26_PodcastExclusive ==
    /\ [](Cardinality(PodPlaying) <= 1)
    /\ [][StopAudio => PodPlaying' = {}]_vars


\* ------------------------------------------------- App: the persist effect
\* Variant that C29 rules out: the effect saves without looking at isLoaded.
PersistUnguarded(arts, loaded) ==
    puts \cup { [id |-> a, rec |-> arts[a]] : a \in DOMAIN arts }

\* The persist effect of App (part_001 lines 52-61), run after `articles` or
\* `isLoaded` has changed, on their new values: the put requests pending
\* after it.  It returns at once while isLoaded is false; otherwise it calls
\* saveArticleToDB for every article of the list.
Persist(arts, loaded) ==
    IF loaded
      THEN puts \cup { [id |-> a, rec |-> arts[a]] : a \in DOMAIN arts }
      ELSE puts

\* setArticles(prev => prev.map(a => a.id === id ? rec : a)).
SetArticle(arts, id, rec) ==
    [a \in DOMAIN arts |-> IF a = id THEN rec ELSE arts[a]]

\* ------------------------------------------------------ consumer dashboard
\* src/components/ConsumerDashboard.tsx.  The profile is left as it is on
\* mount, so an article holds at most one adaptation per format for it.  The
\* handlers are called through their buttons, under the conditions the
\* buttons are rendered with.
MaxCalls == 3       \* calls of handleGenerate and handleIllustrate in one run

Formats == {"text", "podcast", "comic"}

\* The selectedArticle of the current render.
Selected == selectedArticleId # 0

HasKind(rec, kind) ==
    \E k \in DOMAIN rec.adaptations : rec.adaptations[k].kind = kind

\* adaptations.find / findIndex: the first adaptation of the kind.
FirstOfKind(rec, kind) ==
    CHOOSE k \in DOMAIN rec.adaptations :
        /\ rec.adaptations[k].kind = kind
        /\ \A j \in 1..(k - 1) : rec.adaptations[j].kind # kind

\* What handleGenerate's else-branch and storedAdaptation key on.
FormatKind == IF activeFormat = "comic" THEN "comic" ELSE "text"

\* storedAdaptation, lines 128-135, and storedPodcast, lines 137-141.
StoredAdaptation ==
    Selected /\ HasKind(articles[selectedArticleId], FormatKind)
StoredPodcast ==
    Selected /\ articles[selectedArticleId].podcasts # <<>>

\* The ids of the assets an article holds.
AssetIds(rec) ==
    { rec.adaptations[k].id : k \in DOMAIN rec.adaptations }
       \cup { rec.podcasts[k] : k \in DOMAIN rec.podcasts }

\* handleArticleSelect, lines 143-150.
HandleArticleSelect(id) ==
    /\ isLoaded
    /\ id \in DOMAIN articles
    /\ selectedArticleId' = id
    /\ generatedContent' = NoContent
    /\ generatedImage' = FALSE
    /\ StopAudioCall
    /\ activeFormat' = "text"
    /\ UNCHANGED <<isGenerating, isGeneratingImage, genCall, illCall, readers,
                   made, calls>>
    /\ UNCHANGED <<liveVars, codecVars, appVars>>

\* The three format buttons, lines 429-441.
SetActiveFormat(f) ==
    /\ isLoaded
    /\ Selected
    /\ activeFormat # f
    /\ activeFormat' = f
    /\ UNCHANGED <<selectedArticleId, generatedContent, generatedImage,
                   isGenerating, isGeneratingImage, genCall, illCall, readers,
                   made, calls>>
    /\ UNCHANGED <<liveVars, codecVars, podVars, appVars>>

\* handleGenerate, lines 152-165 / 192-194 / 211-213, from the click on a
\* Generate button (lines 529 and 570, shown when nothing is stored for the
\* view and, for text and comic, nothing is displayed) to its await.  The
\* call keeps the selectedArticle of the render it was created in.
HandleGenerate ==
    /\ isLoaded
    /\ Selected
    /\ ~isGenerating
    /\ calls < MaxCalls
    /\ IF activeFormat = "podcast"
         THEN ~StoredPodcast
         ELSE generatedContent = NoContent /\ ~StoredAdaptation
    /\ isGenerating' = TRUE
    /\ generatedContent' = NoContent
    /\ generatedImage' = FALSE
    /\ StopAudioCall
    /\ genCall' = [format |-> activeFormat, art |-> selectedArticleId,
                   snap |-> articles[selectedArticleId]]
    /\ calls' = calls + 1
    /\ UNCHANGED <<selectedArticleId, activeFormat, isGeneratingImage,
                   illCall, readers, made>>
    /\ UNCHANGED <<liveVars, codecVars, appVars>>

\* The article a call saves: its own copy of the article with the new
\* adaptation in front (lines 203-206 and 222-225).
WithAdaptation(snap, id, kind) ==
    [snap EXCEPT !.adaptations =
        <<[id |-> id, kind |-> kind, image |-> FALSE]>> \o @]

\* The same for a podcast (lines 180-183).
WithPodcast(snap, id) == [snap EXCEPT !.podcasts = <<id>> \o @]

\* handleGenerate resumed from its await, to its end (lines 166-235).
\* `outcome` is what the backend call did: "value" (a text, or an audio
\* buffer), "nothing" (generatePodcastAudio returned null) or "throws".
GenerateReturns(outcome) ==
    /\ genCall # NoCall
    /\ outcome = "nothing" => genCall.format = "podcast"
    /\ isGenerating' = FALSE
    /\ genCall' = NoCall
    /\ IF outcome # "value"
         THEN UNCHANGED <<generatedContent, readers, made, articles, puts>>
         ELSE IF genCall.format = "podcast"
           THEN /\ readers' = Append(readers, [art |-> genCall.art,
                                               snap |-> genCall.snap])
                /\ UNCHANGED <<generatedContent, made, articles, puts>>
           ELSE /\ made' = made + 1
                /\ generatedContent' = [id |-> made + 1, art |-> genCall.art]
                /\ articles' =
                     SetArticle(articles, genCall.art,
                                WithAdaptation(genCall.snap, made + 1,
                                               genCall.format))
                /\ puts' = Persist(articles', isLoaded)
                /\ UNCHANGED readers
    /\ UNCHANGED <<selectedArticleId, activeFormat, generatedImage,
                   isGeneratingImage, illCall, calls>>
    /\ UNCHANGED <<isLoaded, loadPc, db, dbHealth>>
    /\ UNCHANGED <<liveVars, codecVars, podVars>>

\* reader.onloadend, lines 171-187: the podcast is saved and played.
ReaderLoaded(k) ==
    /\ k \in DOMAIN readers
    /\ made' = made + 1
    /\ articles' = SetArticle(articles, readers[k].art,
                              WithPodcast(readers[k].snap, made + 1))
    /\ puts' = Persist(articles', isLoaded)
    /\ PlayCall
    /\ readers' = SubSeq(readers, 1, k - 1)
                    \o SubSeq(readers, k + 1, Len(readers))
    /\ UNCHANGED <<selectedArticleId, activeFormat, generatedContent,
                   generatedImage, isGenerating, isGeneratingImage, genCall,
                   illCall, calls>>
    /\ UNCHANGED <<isLoaded, loadPc, db, dbHealth>>
    /\ UNCHANGED <<liveVars, codecVars>>

\* handleIllustrate, lines 238-244, from the click on the Illustrate button
\* under displayed content (line 506) to its await.
HandleIllustrate ==
    /\ isLoaded
    /\ Selected
    /\ generatedContent # NoContent
    /\ activeFormat = "comic"
    /\ ~generatedImage
    /\ ~isGeneratingImage
    /\ calls < MaxCalls
    /\ isGeneratingImage' = TRUE
    /\ illCall' = [format |-> "image", art |-> selectedArticleId,
                   snap |-> articles[selectedArticleId]]
    /\ calls' = calls + 1
    /\ UNCHANGED <<selectedArticleId, activeFormat, generatedContent,
                   generatedImage, isGenerating, genCall, readers, made>>
    /\ UNCHANGED <<liveVars, codecVars, podVars, appVars>>

\* The article handleIllustrate saves: its own copy of the article with the
\* image set on the first comic script (lines 251-262).
WithImage(snap) ==
    [snap EXCEPT !.adaptations[FirstOfKind(snap, "comic")].image = TRUE]

\* handleIllustrate resumed from its await, to its end (lines 245-273).
\* generateComicIllustration catches its own errors and returns null.
IllustrateReturns(outcome) ==
    /\ illCall # NoCall
    /\ outcome \in {"value", "nothing"}
    /\ isGeneratingImage' = FALSE
    /\ illCall' = NoCall
    /\ IF outcome = "value"
         THEN /\ generatedImage' = TRUE
              /\ IF HasKind(illCall.snap, "comic")
                   THEN /\ articles' = SetArticle(articles, illCall.art,
                                                  WithImage(illCall.snap))
                        /\ puts' = Persist(articles', isLoaded)
                   ELSE UNCHANGED <<articles, puts>>
         ELSE UNCHANGED <<generatedImage, articles, puts>>
    /\ UNCHANGED <<selectedArticleId, activeFormat, generatedContent,
                   isGenerating, genCall, readers, made, calls>>
    /\ UNCHANGED <<isLoaded, loadPc, db, dbHealth>>
    /\ UNCHANGED <<liveVars, codecVars, podVars>>

\* The Illustrate button under a stored comic script without image (lines
\* 478-485): it sets generatedContent to the stored script and calls
\* handleIllustrate, which still sees the empty generatedContent of its
\* render and returns at line 239.
IllustrateStored ==
    /\ isLoaded
    /\ activeFormat = "comic"
    /\ StoredAdaptation
    /\ generatedContent = NoContent
    /\ ~isGeneratingImage
    /\ LET rec == articles[selectedArticleId]
           a == rec.adaptations[FirstOfKind(rec, "comic")]
       IN  /\ ~a.image
           /\ generatedContent' = [id |-> a.id, art |-> selectedArticleId]
    /\ UNCHANGED <<selectedArticleId, activeFormat, generatedImage,
                   isGenerating, isGeneratingImage, genCall, illCall, readers,
                   made, calls>>
    /\ UNCHANGED <<liveVars, codecVars, podVars, appVars>>

\* loadAdaptation, lines 314-324, on the k-th saved adaptation of the footer.
LoadAdaptation(k) ==
    /\ isLoaded
    /\ Selected
    /\ k \in DOMAIN articles[selectedArticleId].adaptations
    /\ LET a == articles[selectedArticleId].adaptations[k]
       IN  /\ generatedContent' = [id |-> a.id, art |-> selectedArticleId]
           /\ generatedImage' = a.image
           /\ activeFormat' = a.kind
    /\ UNCHANGED <<selectedArticleId, isGenerating, isGeneratingImage,
                   genCall, illCall, readers, made, calls>>
    /\ UNCHANGED <<liveVars, codecVars, podVars, appVars>>

NextDash ==
    \/ \E id \in {1, 2} : HandleArticleSelect(id)
    \/ \E f \in Formats : SetActiveFormat(f)
    \/ HandleGenerate
    \/ \E outcome \in {"value", "nothing", "throws"} : GenerateReturns(outcome)
    \/ \E k \in 1..MaxCalls : ReaderLoaded(k)
    \/ HandleIllustrate
    \/ \E outcome \in {"value", "nothing"} : IllustrateReturns(outcome)
    \/ IllustrateStored
    \/ \E k \in 1..MaxCalls : LoadAdaptation(k)
SpecDash == InitDash /\ [][NextDash]_vars

\* The backend calls and the FileReader settle.
SpecDashFair ==
    /\ SpecDash
    /\ WF_vars(\E outcome \in {"value", "nothing", "throws"} :
                   GenerateReturns(outcome))
    /\ WF_vars(\E outcome \in {"value", "nothing"} : IllustrateReturns(outcome))

\* ----------------------------------------------------------------- C27
\* C27: an asset an article holds stays in it: no step removes a podcast or
\* an adaptation from an article.
C27_AssetsNeverLost ==
    [][\A a \in DOMAIN articles :
          AssetIds(articles[a]) \subseteq AssetIds(articles'[a])]_vars

\* ----------------------------------------------------------------- C28
\* C28: the generated content on display was generated from the article
\* that is selected.
C28_ContentOfSelected ==
    generatedContent # NoContent => generatedContent.art = selectedArticleId

\* ----------------------------------------------------------------- C30
\* C30: a busy flag that is up comes down again, and when isGenerating comes
\* down no generated podcast is still waiting to be saved.
C30_BusyFlagsReleased ==
    /\ isGenerating ~> ~isGenerating
    /\ isGeneratingImage ~> ~isGeneratingImage
    /\ [][(isGenerating /\ ~isGenerating') => readers' = <<>>]_vars


\* ------------------------------------------------------ App: initial load
\* loadData of App (part_001 lines 30-49) on the store of part_000.
\* dbHealth says what the store does in this run: "ok"; "openFails" (initDB
\* rejects); "readFails" (the getAll request fails); "writeFails" (put
\* requests fail).
Healths == {"ok", "openFails", "readFails", "writeFails"}

\* An article that holds one adaptation.
AdaptedArticle ==
    [adaptations |-> <<[id |-> 1, kind |-> "text", image |-> FALSE]>>,
     podcasts |-> <<>>]

\* The stores the app may find: empty, or one or two articles.
Stores ==
    { <<>> } \cup UNION { [ids -> {PlainArticle, AdaptedArticle}] :
                            ids \in {{1}, {2}, {1, 2}} }

\* The app at mount: nothing loaded, loadData suspended at getAllArticles.
InitLoad ==
    /\ InitLive
    /\ InitCodecIdle
    /\ InitPodIdle
    /\ InitDashIdle
    /\ articles = <<>>
    /\ isLoaded = FALSE
    /\ loadPc = [at |-> "reading", via |-> "none"]
    /\ db \in Stores
    /\ dbHealth \in Healths
    /\ puts = {}

\* store.put of every article of `arts` into `store`.
PutAll(store, arts) ==
    [a \in DOMAIN store \cup DOMAIN arts |->
        IF a \in DOMAIN arts THEN arts[a] ELSE store[a]]

\* getAllArticles (part_000 lines 31-46) settles and loadData runs to its
\* next await or to the `finally`.  A failure of initDB is caught inside
\* getAllArticles, which then returns []; a failure of the getAll request
\* rejects and is caught at line 42.  On an empty list loadData goes on to
\* seed the store.
LoadRead ==
    /\ loadPc.at = "reading"
    /\ IF dbHealth = "readFails"
         THEN /\ articles' = SeedArticles
              /\ loadPc' = [at |-> "finally", via |-> "fallback"]
         ELSE LET list == IF dbHealth = "openFails" THEN <<>> ELSE db
              IN  IF DOMAIN list # {}
                    THEN /\ articles' = list
                         /\ loadPc' = [at |-> "finally", via |-> "stored"]
                    ELSE /\ loadPc' = [at |-> "seeding", via |-> "none"]
                         /\ UNCHANGED articles
    /\ puts' = Persist(articles', isLoaded)
    /\ UNCHANGED <<isLoaded, db, dbHealth>>
    /\ UNCHANGED <<liveVars, codecVars, podVars, dashVars>>

\* saveAllArticlesToDB(INITIAL_ARTICLES) (part_000 lines 62-80) settles: the
\* seed articles are in the store and line 40 shows them, or the write was
\* rejected and line 44 shows them.
SeedSettles ==
    /\ loadPc.at = "seeding"
    /\ IF dbHealth = "ok"
         THEN /\ db' = PutAll(db, SeedArticles)
              /\ loadPc' = [at |-> "finally", via |-> "seeded"]
         ELSE /\ UNCHANGED db
              /\ loadPc' = [at |-> "finally", via |-> "fallback"]
    /\ articles' = SeedArticles
    /\ puts' = Persist(articles', isLoaded)
    /\ UNCHANGED <<isLoaded, dbHealth>>
    /\ UNCHANGED <<liveVars, codecVars, podVars, dashVars>>

\* Line 46, setIsLoaded(true), and the persist effect that follows it.
LoadFinally ==
    /\ loadPc.at = "finally"
    /\ isLoaded' = TRUE
    /\ loadPc' = [loadPc EXCEPT !.at = "done"]
    /\ puts' = Persist(articles, isLoaded')
    /\ UNCHANGED <<articles, db, dbHealth>>
    /\ UNCHANGED <<liveVars, codecVars, podVars, dashVars>>

\* A put request of saveArticleToDB (part_000 lines 49-59) settles: the
\* article is in the store, or the request failed and line 59 of App logs it.
PutDone(req) ==
    /\ req \in puts
    /\ puts' = puts \ {req}
    /\ db' = IF dbHealth = "ok"
               THEN PutAll(db, [a \in {req.id} |-> req.rec])
               ELSE db
    /\ UNCHANGED <<articles, isLoaded, loadPc, dbHealth>>
    /\ UNCHANGED <<liveVars, codecVars, podVars, dashVars>>

NextLoad ==
    \/ LoadRead
    \/ SeedSettles
    \/ LoadFinally
    \/ \E req \in puts : PutDone(req)

\* The requests loadData waits for settle, and loadData runs on.
SpecLoad ==
    /\ InitLoad
    /\ [][NextLoad]_vars
    /\ WF_vars(LoadRead)
    /\ WF_vars(SeedSettles)
    /\ WF_vars(LoadFinally)

\* ----------------------------------------------------------------- C29
\* The list on display is the seed list when the store was empty or could
\* not be read, and the content of the store otherwise.
SeedWhenNothingRead ==
    isLoaded =>
        IF dbHealth \in {"openFails", "readFails"} \/ DOMAIN db = {}
          THEN articles = SeedArticles
          ELSE articles = db

\* C29 as stated: nothing is written to the store before isLoaded is true;
\* the load finishes; an empty or unreadable store shows the seed list.
C29_LoadBeforePersist ==
    /\ [][db' # db => isLoaded']_vars
    /\ <>isLoaded
    /\ []SeedWhenNothingRead

\* C29: the persist effect issues no put before isLoaded is true, and the
\* only write to the store before that is loadData's own seeding of a store
\* it found empty; the load finishes; an empty or unreadable store shows the
\* seed list.
C29_LoadThenPersist ==
    /\ [](puts # {} => isLoaded)
    /\ [][(db' # db /\ ~isLoaded')
             => (loadPc.at = "seeding" /\ DOMAIN db = {}
                   /\ db' = SeedArticles)]_vars
    /\ <>isLoaded
    /\ []SeedWhenNothingRead

\* The load has finished after seeding an empty store: the seed list is in
\* the store and on display.
C29_Witness ==
    /\ isLoaded
    /\ loadPc = [at |-> "done", via |-> "seeded"]
    /\ articles = SeedArticles
    /\ db = SeedArticles
====
